---- MODULE Spec2Model ----
(***************************************************************************)
(* The evolution store and the hotspot trend engine of src/src/index.ts:   *)
(* POST /evolution/record, GET /evolution/timeline, GET /evolution/hotspots *)
(* over the JSON file evolutionData.json; with them the metrics analyzer   *)
(* analyzeCodeComplexity and the loop of POST /repository-analysis that    *)
(* folds its results into the summary of a repository.                     *)
(*                                                                         *)
(* JavaScript objects (request bodies, query strings, snapshots, metrics)  *)
(* are records that hold exactly the keys that are defined: a key that is  *)
(* absent reads as undefined, as in JSON.                                  *)
(***************************************************************************)
EXTENDS Integers, Sequences, FiniteSets, TLC

VARIABLES
    disk,      \* evolutionData.json: [exists, text]
    now,       \* the value Date.now() returns
    pc,        \* per request slot: where its handler stands
    inflight,  \* per request slot: what the handler was called with (the body
               \* of a record call, a source text, the code files of a repository)
    data,      \* per request slot: the handler's locals (the array `data` of
               \* record, the totals of the repository loop)
    last,      \* the last call answered: [op, arg, status, out], and as history
               \* `before`, the snapshots the file held when its handler began
    acked,     \* history: the snapshots of the record calls answered with success
    overlap    \* history: two record calls have been in the server at once

vars == <<disk, now, pc, inflight, data, last, acked, overlap>>

-----------------------------------------------------------------------------
(* Bounds of the model *)

\* the counts of a construct in a source text are 0..MaxCount and ManyCount
MaxCount == 1
ManyCount == 20
\* most lines of a source text
MaxLines == 3
\* the lists of code files of a repository are those of up to MaxFiles files
\* and one of ManyFiles files
MaxFiles == 3
ManyFiles == 31

\* most snapshots the store holds in Spec
MaxStore == 3
\* most snapshots the store holds in ConcSpec and CrashSpec
MaxConc == 2
\* most snapshots the store holds in HotSpec
MaxHot == 4
\* last value of the clock
MaxNow == 2

\* request slots: calls that can be in the server at the same time
Reqs == {1, 2}

-----------------------------------------------------------------------------
(* JavaScript values *)

\* the JSON number 0 sent where a mapping is expected (boxed, so that it can
\* stand beside records)
JsZero == [number |-> 0]

Has(o, k) == k \in DOMAIN o

\* !x for a string-valued key: undefined and "" are falsy
FalsyStr(o, k) == ~Has(o, k) \/ o[k] = ""

\* !x for a number-valued key: undefined and 0 are falsy
FalsyNum(o, k) == ~Has(o, k) \/ o[k] = 0

\* !x for the metrics key: undefined and 0 are falsy, every object is truthy
FalsyMetrics(o) == ~Has(o, "metrics") \/ o.metrics = JsZero

\* the object with the keys of ks that o defines
Pick(o, ks) == [k \in (DOMAIN o) \cap ks |-> o[k]]

-----------------------------------------------------------------------------
(* The file *)

OpenBracket == [tok |-> "["]
CloseBracket == [tok |-> "]"]

NoFile == [exists |-> FALSE, text |-> <<>>]

\* JSON.stringify(data, null, 2): the array's text, entry by entry
JSONstringify(d) == <<OpenBracket>> \o d \o <<CloseBracket>>

IsEntry(x) == x # OpenBracket /\ x # CloseBracket

\* whether JSON.parse accepts the text: a complete array
WellFormed(text) ==
    /\ Len(text) >= 2
    /\ text[1] = OpenBracket
    /\ text[Len(text)] = CloseBracket
    /\ \A i \in 2..(Len(text) - 1) : IsEntry(text[i])

\* JSON.parse of a text it accepts
JSONparse(text) == SubSeq(text, 2, Len(text) - 1)

\* loadEvolutionData(): [] without a file, the parsed array otherwise;
\* ok = FALSE when JSON.parse throws
loadEvolutionData(dk) ==
    IF ~dk.exists THEN [ok |-> TRUE, data |-> <<>>]
    ELSE IF WellFormed(dk.text) THEN [ok |-> TRUE, data |-> JSONparse(dk.text)]
    ELSE [ok |-> FALSE, data |-> <<>>]

\* fs.writeFileSync, first half: the file is opened for writing and truncated
openTruncate(dk) == [exists |-> TRUE, text |-> <<>>]

\* fs.writeFileSync, second half: the text is written
writeText(dk, d) == [exists |-> TRUE, text |-> JSONstringify(d)]

\* saveEvolutionData(data), run to its end
saveEvolutionData(dk, d) == writeText(openTruncate(dk), d)

\* what a process killed inside fs.writeFileSync can leave: the file truncated,
\* or holding a proper prefix of the text
TornWrites(d) ==
    { [exists |-> TRUE, text |-> SubSeq(JSONstringify(d), 1, n)] : n \in 0..(Len(d) + 1) }

-----------------------------------------------------------------------------
(* POST /evolution/record *)

SnapshotKeys == {"repo", "commit", "timestamp", "metrics", "file"}

\* a check that forgets the metrics
recordRejectsRepoOnly(b) == FalsyStr(b, "repo")

\* if (!repo || !metrics) return 400
recordRejects(b) == FalsyStr(b, "repo") \/ FalsyMetrics(b)

\* timestamp || Date.now()
timestampOr(b, t) == IF FalsyNum(b, "timestamp") THEN t ELSE b.timestamp

\* { repo, commit, timestamp: timestamp || Date.now(), metrics, file }
newSnapshot(b, t) ==
    [k \in (DOMAIN Pick(b, SnapshotKeys)) \cup {"timestamp"} |->
        IF k = "timestamp" THEN timestampOr(b, t) ELSE b[k]]

\* data.unshift(snapshot)
pushFront(d, s) == <<s>> \o d

\* a push that skips a snapshot the array already holds
pushUnique(d, s) == IF \E i \in 1..Len(d) : d[i] = s THEN d ELSE Append(d, s)

\* data.push(snapshot)
push(d, s) == Append(d, s)

Answer(op, arg, status, out, before) ==
    [op |-> op, arg |-> arg, status |-> status, out |-> out, before |-> before]

\* a handler is between its first and its last statement
Running(r) == pc[r] \notin {"idle", "queued"}

\* no handler is running: the event loop can start one
Quiet == \A r \in Reqs : ~Running(r)

\* the whole handler, which runs without yielding to the event loop
Record(b, max) ==
    /\ Quiet
    /\ LET l == loadEvolutionData(disk) IN
       IF recordRejects(b)
       THEN /\ last' = Answer("record", b, 400, <<>>, l.data)
            /\ UNCHANGED <<disk, acked>>
       ELSE IF ~l.ok
       THEN /\ last' = Answer("record", b, 500, <<>>, l.data)
            /\ UNCHANGED <<disk, acked>>
       ELSE /\ Len(l.data) < max
            /\ disk' = saveEvolutionData(disk, push(l.data, newSnapshot(b, now)))
            /\ last' = Answer("record", b, 200, <<>>, l.data)
            /\ acked' = Append(acked, newSnapshot(b, now))
    /\ UNCHANGED <<now, pc, inflight, data, overlap>>

-----------------------------------------------------------------------------
(* POST /evolution/record, statement by statement *)

\* a handler that awaits its file operations lets the others run in between
eventLoopShared(r) == TRUE

\* Node runs a handler that never awaits to its end before it starts another:
\* slot r may run when no other slot is inside its handler
eventLoopFree(r) == \A o \in Reqs \ {r} : ~Running(o)

\* a request arrives and waits for the event loop
RecordArrive(r, b) ==
    /\ pc[r] = "idle"
    /\ pc' = [pc EXCEPT ![r] = "queued"]
    /\ inflight' = [inflight EXCEPT ![r] = b]
    /\ overlap' = (overlap \/ \E o \in Reqs \ {r} : pc[o] # "idle")
    /\ UNCHANGED <<disk, now, data, last, acked>>

\* lines 865-869: the check of the body, then const data = loadEvolutionData()
RecordLoad(r, max) ==
    /\ pc[r] = "queued"
    /\ eventLoopFree(r)
    /\ LET l == loadEvolutionData(disk) IN
       IF recordRejects(inflight[r]) \/ ~l.ok
       THEN /\ last' = Answer("record", inflight[r],
                              IF recordRejects(inflight[r]) THEN 400 ELSE 500, <<>>, l.data)
            /\ pc' = [pc EXCEPT ![r] = "idle"]
            /\ inflight' = [inflight EXCEPT ![r] = <<>>]
            /\ UNCHANGED data
       ELSE /\ Len(l.data) < max
            /\ data' = [data EXCEPT ![r] = l.data]
            /\ pc' = [pc EXCEPT ![r] = "loaded"]
            /\ UNCHANGED <<last, inflight>>
    /\ UNCHANGED <<disk, now, acked, overlap>>

\* line 870: data.push(...)
RecordPush(r) ==
    /\ pc[r] = "loaded"
    /\ eventLoopFree(r)
    /\ data' = [data EXCEPT ![r] = push(data[r], newSnapshot(inflight[r], now))]
    /\ pc' = [pc EXCEPT ![r] = "pushed"]
    /\ UNCHANGED <<disk, now, inflight, last, acked, overlap>>

\* line 871, fs.writeFileSync opens the file
RecordOpen(r) ==
    /\ pc[r] = "pushed"
    /\ eventLoopFree(r)
    /\ disk' = openTruncate(disk)
    /\ pc' = [pc EXCEPT ![r] = "opened"]
    /\ UNCHANGED <<now, inflight, data, last, acked, overlap>>

\* line 871, fs.writeFileSync writes the text
RecordWrite(r) ==
    /\ pc[r] = "opened"
    /\ eventLoopFree(r)
    /\ disk' = writeText(disk, data[r])
    /\ pc' = [pc EXCEPT ![r] = "written"]
    /\ UNCHANGED <<now, inflight, data, last, acked, overlap>>

\* line 872: res.json({ success: true })
RecordRespond(r) ==
    /\ pc[r] = "written"
    /\ eventLoopFree(r)
    /\ last' = Answer("record", inflight[r], 200, <<>>, SubSeq(data[r], 1, Len(data[r]) - 1))
    /\ acked' = Append(acked, data[r][Len(data[r])])
    /\ pc' = [pc EXCEPT ![r] = "idle"]
    /\ inflight' = [inflight EXCEPT ![r] = <<>>]
    /\ data' = [data EXCEPT ![r] = <<>>]
    /\ UNCHANGED <<disk, now, overlap>>

\* what Express answers when the handler throws out of fs.writeFileSync
WriteError == [error |-> "writeFileSync"]

\* line 871, fs.writeFileSync cannot open the file (EACCES, EROFS, EMFILE):
\* the file is untouched, the exception leaves the handler, which has no
\* try/catch, and Express answers 500
RecordOpenFails(r) ==
    /\ pc[r] = "pushed"
    /\ eventLoopFree(r)
    /\ last' = Answer("record", inflight[r], 500, <<WriteError>>,
                      SubSeq(data[r], 1, Len(data[r]) - 1))
    /\ pc' = [pc EXCEPT ![r] = "idle"]
    /\ inflight' = [inflight EXCEPT ![r] = <<>>]
    /\ data' = [data EXCEPT ![r] = <<>>]
    /\ UNCHANGED <<disk, now, acked, overlap>>

\* line 871, fs.writeFileSync has opened and truncated the file and the write
\* fails (ENOSPC, EIO): the file keeps what was written until then
RecordWriteFails(r) ==
    /\ pc[r] = "opened"
    /\ eventLoopFree(r)
    /\ disk' \in TornWrites(data[r])
    /\ last' = Answer("record", inflight[r], 500, <<WriteError>>,
                      SubSeq(data[r], 1, Len(data[r]) - 1))
    /\ pc' = [pc EXCEPT ![r] = "idle"]
    /\ inflight' = [inflight EXCEPT ![r] = <<>>]
    /\ data' = [data EXCEPT ![r] = <<>>]
    /\ UNCHANGED <<now, acked, overlap>>

\* the process is killed while a record handler runs, and is started again:
\* the calls in the server are lost, the file stays as the kill left it
Crash ==
    /\ \E r \in Reqs : Running(r)
    /\ disk' \in IF \E r \in Reqs : pc[r] = "opened"
                THEN UNION { TornWrites(data[r]) : r \in { o \in Reqs : pc[o] = "opened" } }
                ELSE {disk}
    /\ pc' = [r \in Reqs |-> "idle"]
    /\ inflight' = [r \in Reqs |-> <<>>]
    /\ data' = [r \in Reqs |-> <<>>]
    /\ last' = Answer("crash", <<>>, 0, <<>>, <<>>)
    /\ UNCHANGED <<now, acked, overlap>>

-----------------------------------------------------------------------------
(* GET /evolution/timeline *)

\* snap.repo === repo && snap.file === file
timelineKeepsStrict(snap, q) ==
    /\ snap.repo = q.repo
    /\ Has(snap, "file") = Has(q, "file")
    /\ (Has(q, "file") => snap.file = q.file)

\* snap.repo === repo
timelineKeepsRepoOnly(snap, q) == snap.repo = q.repo

\* snap.repo === repo && (!file || snap.file === file)
timelineKeeps(snap, q) ==
    /\ snap.repo = q.repo
    /\ (FalsyStr(q, "file") \/ (Has(snap, "file") /\ snap.file = q.file))

timeline(d, q) == SelectSeq(d, LAMBDA snap : timelineKeeps(snap, q))

\* the array a read handler holds written back to the file
readSavesBack(dk, d) == saveEvolutionData(dk, d)

\* the file after a read handler that held the array d: lines 876-881 and
\* 884-911 call loadEvolutionData and never saveEvolutionData; filter makes a
\* new array and sort reorders in memory only
fileAfterRead(dk, d) == dk

Timeline(q) ==
    /\ Quiet
    /\ LET l == loadEvolutionData(disk) IN
       last' = IF FalsyStr(q, "repo") THEN Answer("timeline", q, 400, <<>>, l.data)
               ELSE IF ~l.ok THEN Answer("timeline", q, 500, <<>>, l.data)
               ELSE Answer("timeline", q, 200, timeline(l.data, q), l.data)
    /\ disk' = fileAfterRead(disk, IF FalsyStr(q, "repo") THEN <<>>
                                   ELSE timeline(loadEvolutionData(disk).data, q))
    /\ UNCHANGED <<now, pc, inflight, data, acked, overlap>>

-----------------------------------------------------------------------------
(* GET /evolution/hotspots *)

\* the window used when the parameter gives none
DefaultWindow == 5

Digits == {"0", "1", "2", "3", "4", "5", "6", "7", "8", "9"}

DigitValue(c) ==
    CASE c = "0" -> 0 [] c = "1" -> 1 [] c = "2" -> 2 [] c = "3" -> 3 [] c = "4" -> 4
      [] c = "5" -> 5 [] c = "6" -> 6 [] c = "7" -> 7 [] c = "8" -> 8 [] c = "9" -> 9

NaN == [nan |-> TRUE, value |-> 0]

Number(n) == [nan |-> FALSE, value |-> n]

\* the value of the longest run of digits that starts w, after acc; seen tells
\* whether a digit was read
RECURSIVE parseDigits(_, _, _)
parseDigits(w, acc, seen) ==
    IF w # <<>> /\ Head(w) \in Digits
    THEN parseDigits(Tail(w), 10 * acc + DigitValue(Head(w)), TRUE)
    ELSE IF seen THEN Number(acc) ELSE NaN

\* parseInt(window): a query string is a sequence of characters; an optional
\* sign, then digits; NaN when no digit follows, and for undefined
parseInt(q) ==
    IF ~Has(q, "window") \/ q.window = <<>> THEN NaN
    ELSE IF Head(q.window) = "-"
         THEN LET p == parseDigits(Tail(q.window), 0, FALSE) IN
              IF p.nan THEN NaN ELSE Number(0 - p.value)
    ELSE IF Head(q.window) = "+" THEN parseDigits(Tail(q.window), 0, FALSE)
    ELSE parseDigits(q.window, 0, FALSE)

\* const N = parseInt(window) || 5: NaN and 0 are falsy
windowOf(q) ==
    LET p == parseInt(q) IN IF p.nan \/ p.value = 0 THEN DefaultWindow ELSE p.value

\* loadEvolutionData().filter(snap => snap.repo === repo)
ofRepo(d, q) == SelectSeq(d, LAMBDA snap : snap.repo = q.repo)

\* keys that the empty object literal {} inherits from Object.prototype:
\* byFile[key] is truthy for them and has no push
PrototypeKeys ==
    { "constructor", "toString", "toLocaleString", "valueOf", "hasOwnProperty",
      "isPrototypeOf", "propertyIsEnumerable", "__proto__", "__defineGetter__",
      "__defineSetter__", "__lookupGetter__", "__lookupSetter__" }

GroupIndex(groups, file) ==
    IF \E i \in 1..Len(groups) : groups[i].file = file
    THEN CHOOSE i \in 1..Len(groups) : groups[i].file = file
    ELSE 0

\* data.forEach(snap => { if (!snap.file) return;
\*   if (!byFile[snap.file]) byFile[snap.file] = []; byFile[snap.file].push(snap) })
\* the groups in the order their keys were created; ok = FALSE when push throws
RECURSIVE byFile(_, _)
byFile(d, groups) ==
    IF d = <<>> THEN [ok |-> TRUE, groups |-> groups]
    ELSE LET snap == Head(d)
             i == GroupIndex(groups, snap.file)
         IN  IF FalsyStr(snap, "file") THEN byFile(Tail(d), groups)
             ELSE IF snap.file \in PrototypeKeys THEN [ok |-> FALSE, groups |-> groups]
             ELSE IF i = 0
             THEN byFile(Tail(d), Append(groups, [file |-> snap.file, snaps |-> <<snap>>]))
             ELSE byFile(Tail(d),
                         [groups EXCEPT ![i].snaps = Append(groups[i].snaps, snap)])

\* x put into a sequence ordered by `order`, in front of the first element it
\* compares below and behind every other (Array.prototype.sort is stable);
\* order[e] is the number the comparator's difference is taken of
RECURSIVE insertSorted(_, _, _)
insertSorted(sorted, x, order) ==
    IF sorted = <<>> THEN <<x>>
    ELSE IF order[x] - order[Head(sorted)] < 0 THEN <<x>> \o sorted
    ELSE <<Head(sorted)>> \o insertSorted(Tail(sorted), x, order)

RECURSIVE stableSort(_, _)
stableSort(s, order) ==
    IF s = <<>> THEN <<>>
    ELSE insertSorted(stableSort(SubSeq(s, 1, Len(s) - 1), order), s[Len(s)], order)

Range(s) == { s[i] : i \in 1..Len(s) }

\* the file names of the inputs that are array indices (canonical decimal
\* numerals below 2^32 - 1), with the integers they denote
ArrayIndex == ("2" :> 2) @@ ("10" :> 10)

IsArrayIndex(file) == file \in DOMAIN ArrayIndex

\* Object.entries(byFile): the own keys in the order of OrdinaryOwnPropertyKeys,
\* the array indices in ascending numeric order first, then the other strings
\* in the order their keys were created
ObjectEntries(groups) ==
    LET indices == SelectSeq(groups, LAMBDA g : IsArrayIndex(g.file))
        others == SelectSeq(groups, LAMBDA g : ~IsArrayIndex(g.file))
    IN  stableSort(indices, [g \in Range(indices) |-> ArrayIndex[g.file]]) \o others

\* the group left in the order of the file
sortSkipped(snaps) == snaps

\* snaps.sort((a, b) => a.timestamp - b.timestamp)
sortByTimestamp(snaps) == stableSort(snaps, [x \in Range(snaps) |-> x.timestamp])

\* x.securityScore || 0
securityScoreOr0(m) == IF FalsyNum(m, "securityScore") THEN 0 ELSE m.securityScore

\* the callback of Object.entries(byFile).map: "null" below the window, "throw"
\* when sorted[sorted.length - N] is undefined, the entry otherwise.
\* (every metrics mapping of the inputs defines maintainabilityIndex and
\* complexityScore)
hotspotOf(file, snaps, N) ==
    LET sorted == sortByTimestamp(snaps)
        len == Len(sorted)
    IN  IF len < N THEN [kind |-> "null"]
        ELSE IF len - N > len - 1 THEN [kind |-> "throw"]
        ELSE LET start == sorted[len - N + 1].metrics
                 end == sorted[len].metrics
             IN  [kind |-> "entry",
                  file |-> file,
                  maintainabilityTrend |-> end.maintainabilityIndex - start.maintainabilityIndex,
                  complexityTrend |-> end.complexityScore - start.complexityScore,
                  securityTrend |-> securityScoreOr0(end) - securityScoreOr0(start),
                  latest |-> end]

\* the entries left in the order of Object.entries
entriesAsMapped(list) == list

\* list.sort((a, b) => (b?.complexityTrend || 0) - (a?.complexityTrend || 0))
sortByComplexityTrend(list) ==
    stableSort(list, [e \in Range(list) |-> 0 - e.complexityTrend])

\* Object.entries(byFile).map(...).filter(Boolean).sort(...)
hotspots(groups, N) ==
    LET entries == ObjectEntries(groups)
        mapped == [i \in 1..Len(entries) |-> hotspotOf(entries[i].file, entries[i].snaps, N)]
    IN  IF \E i \in 1..Len(mapped) : mapped[i].kind = "throw"
        THEN [ok |-> FALSE, list |-> <<>>]
        ELSE [ok |-> TRUE,
              list |-> sortByComplexityTrend(SelectSeq(mapped, LAMBDA e : e.kind = "entry"))]

\* the handler's answer over the array d that loadEvolutionData returned
hotspotsAnswer(d, q) ==
    LET g == byFile(ofRepo(d, q), <<>>)
        h == hotspots(g.groups, windowOf(q))
    IN  IF ~g.ok \/ ~h.ok THEN Answer("hotspots", q, 500, <<>>, d)
        ELSE Answer("hotspots", q, 200, h.list, d)

Hotspots(q) ==
    /\ Quiet
    /\ LET l == loadEvolutionData(disk) IN
       last' = IF FalsyStr(q, "repo") THEN Answer("hotspots", q, 400, <<>>, l.data)
               ELSE IF ~l.ok THEN Answer("hotspots", q, 500, <<>>, l.data)
               ELSE hotspotsAnswer(l.data, q)
    /\ disk' = fileAfterRead(disk, IF FalsyStr(q, "repo") THEN <<>>
                                   ELSE ofRepo(loadEvolutionData(disk).data, q))
    /\ UNCHANGED <<now, pc, inflight, data, acked, overlap>>

-----------------------------------------------------------------------------
(* analyzeCodeComplexity *)

\* A source text is held as what the analyzer takes from it: the number of
\* lines (code.split('\n').length, at least 1), the number of matches of each
\* of its regular expressions, and the sinks that code.includes finds. The
\* matches do not overlap, so that every combination of counts is the count of
\* some text. The count of non-empty lines and of comment lines and the
\* codeToCommentRatio made of them are left out.
\*
\* The numbers the analyzer computes with fractions (1.5 per function, 0.1 per
\* line) and the three scores made of them are held in tenths: Tenths(50) is
\* 50, 499 is 49.9.
Tenths(n) == 10 * n

IsInteger(t) == t % 10 = 0

\* Math.round: the nearest integer, a half rounded up
MathRound(t) == ((t + 5) \div 10) * 10

\* the score as the formula gives it, below 0 with enough constructs
maxSkipped(a, b) == b

\* Math.max(0, x)
MathMax(a, b) == IF a >= b THEN a ELSE b

\* the sinks of lines 807-809, in the order they are tested
Sinks == <<"eval(", "innerHTML", "document.write">>

sinkIssue(sink) ==
    IF sink = "eval(" THEN "eval() usage detected"
    ELSE IF sink = "innerHTML" THEN "innerHTML usage detected"
    ELSE "document.write usage detected"

ComplexMessage ==
    "Consider breaking down complex functions into smaller, more manageable pieces"
MaintainabilityMessage ==
    "Code maintainability is low. Consider refactoring and adding more comments"
PerformanceMessage ==
    "Performance could be improved. Consider optimizing loops and reducing nested conditions"
SecurityMessage ==
    "Security issues detected. Review and fix security vulnerabilities"
GoodMessage ==
    "Code quality looks good! Keep up the good practices"

\* the messages of the rules that hold, in the order of the rules; the scores
\* in tenths
ruleMessages(complexityScore, maintainabilityIndex, performanceScore, issueCount) ==
    (IF complexityScore > 20 THEN <<ComplexMessage>> ELSE <<>>)
    \o (IF maintainabilityIndex < Tenths(50) THEN <<MaintainabilityMessage>> ELSE <<>>)
    \o (IF performanceScore < Tenths(70) THEN <<PerformanceMessage>> ELSE <<>>)
    \o (IF issueCount > 0 THEN <<SecurityMessage>> ELSE <<>>)

generateRecommendations(complexityScore, maintainabilityIndex, performanceScore, securityIssues) ==
    LET recommendations ==
            ruleMessages(complexityScore, maintainabilityIndex, performanceScore,
                         Len(securityIssues))
    IN  IF Len(recommendations) = 0 THEN <<GoodMessage>> ELSE recommendations

analyzeCodeComplexity(code) ==
    LET complexityScore ==
            code.ifStatements + code.forLoops * 2 + code.whileLoops * 2
                + code.switchStatements * 3 + code.tryCatchBlocks * 2
        maintainabilityIndex ==
            MathMax(0, Tenths(100) - Tenths(complexityScore * 2)
                           - code.functionCount * 15 - code.totalLines * 1)
        performanceScore ==
            MathMax(0, Tenths(100) - Tenths(code.forLoops * 5)
                           - Tenths(code.whileLoops * 5) - Tenths(code.ifStatements * 2))
        found == SelectSeq(Sinks, LAMBDA sink : sink \in code.sinks)
        securityIssues == [i \in 1..Len(found) |-> sinkIssue(found[i])]
    IN  [metrics |->
            [totalLines |-> code.totalLines,
             functionCount |-> code.functionCount,
             complexityScore |-> complexityScore,
             maintainabilityIndex |-> MathRound(maintainabilityIndex),
             performanceScore |-> MathRound(performanceScore)],
         complexity |->
            [ifStatements |-> code.ifStatements,
             forLoops |-> code.forLoops,
             whileLoops |-> code.whileLoops,
             switchStatements |-> code.switchStatements,
             tryCatchBlocks |-> code.tryCatchBlocks],
         security |->
            [issues |-> securityIssues,
             score |-> MathMax(0, Tenths(100) - Tenths(Len(securityIssues) * 20))],
         recommendations |->
            generateRecommendations(complexityScore, maintainabilityIndex,
                                    performanceScore, securityIssues)]

\* a caller holds a source text and calls analyzeCodeComplexity(code)
Analyze(r) ==
    /\ pc[r] = "analyze"
    /\ last' = Answer("analyze", inflight[r], 200, analyzeCodeComplexity(inflight[r]), <<>>)
    /\ pc' = [pc EXCEPT ![r] = "idle"]
    /\ inflight' = [inflight EXCEPT ![r] = <<>>]
    /\ UNCHANGED <<disk, now, data, acked, overlap>>

-----------------------------------------------------------------------------
(* POST /repository-analysis, from the list of code files on *)

\* A file of the tree is [path, reachable, data]: the path as its parts
\* between dots, whether the request for its raw URL succeeds, and the data
\* axios returns when it does, a source text or, for a body that parses as
\* JSON, a value that is no string.
NotText == [json |-> TRUE]

IsText(d) == "totalLines" \in DOMAIN d

\* file.path.split('.').pop() || 'unknown'
fileExtension(file) ==
    LET parts == file.path
    IN  IF parts[Len(parts)] = "" THEN "unknown" ELSE parts[Len(parts)]

\* lines 646-655
newOverallMetrics(codeFiles) ==
    [totalFiles |-> Len(codeFiles),
     totalLines |-> 0,
     totalFunctions |-> 0,
     totalComplexity |-> 0,
     maintainabilityScores |-> <<>>,
     performanceScores |-> <<>>,
     securityIssues |-> <<>>,
     fileTypes |-> <<>>]

\* (overallMetrics.fileTypes[ext] || 0) + 1; fileTypes as a function on the
\* extensions met
countType(fileTypes, ext) ==
    [e \in DOMAIN fileTypes \cup {ext} |->
        (IF e \in DOMAIN fileTypes THEN fileTypes[e] ELSE 0) + (IF e = ext THEN 1 ELSE 0)]

\* lines 666-672
accumulate(m, analysis, ext) ==
    [m EXCEPT
        !.totalLines = @ + analysis.metrics.totalLines,
        !.totalFunctions = @ + analysis.metrics.functionCount,
        !.totalComplexity = @ + analysis.metrics.complexityScore,
        !.maintainabilityScores = Append(@, analysis.metrics.maintainabilityIndex),
        !.performanceScores = Append(@, analysis.metrics.performanceScore),
        !.securityIssues = @ \o analysis.security.issues,
        !.fileTypes = countType(@, ext)]

RECURSIVE reduceSum(_)
reduceSum(scores) == IF scores = <<>> THEN 0 ELSE Head(scores) + reduceSum(Tail(scores))

\* scores.length > 0 ? Math.round(scores.reduce((a, b) => a + b, 0) / scores.length) : 0
\* the scores and the average in tenths, a half rounded up
average(scores) ==
    IF Len(scores) > 0
    THEN Tenths((2 * reduceSum(scores) + Tenths(Len(scores))) \div (2 * Tenths(Len(scores))))
    ELSE 0

\* [...new Set(issues)]: each issue once, in the order of first occurrence
RECURSIVE unique(_)
unique(issues) ==
    IF issues = <<>> THEN <<>>
    ELSE LET rest == unique(SubSeq(issues, 1, Len(issues) - 1))
             x == issues[Len(issues)]
         IN  IF x \in Range(rest) THEN rest ELSE Append(rest, x)

LowMaintainabilityMessage ==
    "Overall code maintainability is low. Consider establishing coding standards and refactoring complex files."
LowPerformanceMessage ==
    "Performance could be improved across the codebase. Focus on optimizing loops and reducing complexity."
VulnerabilitiesMessage ==
    "Security vulnerabilities detected. Prioritize fixing security issues across the repository."
LargeCodebaseMessage ==
    "Large codebase detected. Consider implementing automated testing and CI/CD pipelines."
GoodRepositoryMessage ==
    "Repository shows good code quality practices. Keep maintaining high standards!"

\* the averages in tenths
generateRepositoryRecommendations(avgMaintainability, avgPerformance, securityIssues, totalFiles) ==
    LET recommendations ==
            (IF avgMaintainability < Tenths(60) THEN <<LowMaintainabilityMessage>> ELSE <<>>)
            \o (IF avgPerformance < Tenths(70) THEN <<LowPerformanceMessage>> ELSE <<>>)
            \o (IF securityIssues > 0 THEN <<VulnerabilitiesMessage>> ELSE <<>>)
            \o (IF totalFiles > 30 THEN <<LargeCodebaseMessage>> ELSE <<>>)
    IN  IF Len(recommendations) = 0 THEN <<GoodRepositoryMessage>> ELSE recommendations

\* lines 687-695 and 726-745: the body of the answer
summary(m, fileAnalyses) ==
    LET avgMaintainability == average(m.maintainabilityScores)
        avgPerformance == average(m.performanceScores)
        uniqueSecurityIssues == unique(m.securityIssues)
    IN  [overview |->
            [totalFiles |-> m.totalFiles,
             totalLines |-> m.totalLines,
             totalFunctions |-> m.totalFunctions,
             averageMaintainability |-> avgMaintainability,
             averagePerformance |-> avgPerformance,
             securityIssues |-> uniqueSecurityIssues,
             fileTypes |-> m.fileTypes],
         files |-> fileAnalyses,
         recommendations |->
            generateRepositoryRecommendations(avgMaintainability, avgPerformance,
                                              Len(uniqueSecurityIssues), m.totalFiles)]

\* the handler of slot r stands in the loop over codeFiles = inflight[r];
\* data[r] holds its locals: i the place of the next file, overallMetrics,
\* fileAnalyses, and as history `skipped`, the places of the files whose
\* iteration ended in the catch
InLoop(r) == pc[r] = "files" /\ data[r].i <= Len(inflight[r])

LoopDone(r) == pc[r] = "files" /\ data[r].i > Len(inflight[r])

skip(d) == [d EXCEPT !.i = @ + 1, !.skipped = @ \cup {d.i}]

\* line 660: axios.get throws; lines 680-683 log and go on
RepoFetchFails(r) ==
    /\ InLoop(r)
    /\ ~inflight[r][data[r].i].reachable
    /\ data' = [data EXCEPT ![r] = skip(@)]
    /\ UNCHANGED <<disk, now, pc, inflight, last, acked, overlap>>

\* lines 660-679: the file is fetched; analyzeCodeComplexity throws at
\* code.split when the data is no string, and the catch goes on; otherwise
\* the analysis is added to the totals
RepoFetched(r) ==
    /\ InLoop(r)
    /\ inflight[r][data[r].i].reachable
    /\ LET file == inflight[r][data[r].i] IN
       data' = [data EXCEPT ![r] =
                  IF ~IsText(file.data) THEN skip(@)
                  ELSE LET analysis == analyzeCodeComplexity(file.data) IN
                       [@ EXCEPT
                          !.i = @ + 1,
                          !.overallMetrics = accumulate(@, analysis, fileExtension(file)),
                          !.fileAnalyses = Append(@, [path |-> file.path, analysis |-> analysis])]]
    /\ UNCHANGED <<disk, now, pc, inflight, last, acked, overlap>>

\* what the answer is remembered with: the files, the places skipped, whether
\* the request for insights succeeded, and overallMetrics at the end of the loop
Batch(r, insights) ==
    [files |-> inflight[r], skipped |-> data[r].skipped, insights |-> insights,
     totals |-> data[r].overallMetrics]

\* lines 686-745: the request for insights succeeds and the summary is sent
RepoSummary(r) ==
    /\ LoopDone(r)
    /\ last' = Answer("repository-analysis", <<>>, 200,
                      summary(data[r].overallMetrics, data[r].fileAnalyses), Batch(r, TRUE))
    /\ pc' = [pc EXCEPT ![r] = "idle"]
    /\ inflight' = [inflight EXCEPT ![r] = <<>>]
    /\ data' = [data EXCEPT ![r] = <<>>]
    /\ UNCHANGED <<disk, now, acked, overlap>>

\* lines 698-722 and 746-749: the request for insights throws, outside the
\* loop's try: the outer catch answers 500
RepoInsightsFail(r) ==
    /\ LoopDone(r)
    /\ last' = Answer("repository-analysis", <<>>, 500, <<>>, Batch(r, FALSE))
    /\ pc' = [pc EXCEPT ![r] = "idle"]
    /\ inflight' = [inflight EXCEPT ![r] = <<>>]
    /\ data' = [data EXCEPT ![r] = <<>>]
    /\ UNCHANGED <<disk, now, acked, overlap>>

-----------------------------------------------------------------------------
(* Date.now() *)

Tick ==
    /\ now < MaxNow
    /\ now' = now + 1
    /\ UNCHANGED <<disk, pc, inflight, data, last, acked, overlap>>

-----------------------------------------------------------------------------
(* Inputs *)

M1 == [maintainabilityIndex |-> 80, complexityScore |-> 10, securityScore |-> 100]
M2 == [maintainabilityIndex |-> 60, complexityScore |-> 25]

Bodies ==
    { [repo |-> "A", file |-> "f", timestamp |-> 5, metrics |-> M1],
      [repo |-> "A", file |-> "f", metrics |-> M1],
      [repo |-> "A", file |-> "f", timestamp |-> 0, metrics |-> M1],
      [repo |-> "A", timestamp |-> 5, metrics |-> M1],
      [repo |-> "A", commit |-> "c1", file |-> "g", timestamp |-> 5, metrics |-> M2],
      [repo |-> "B", file |-> "f", timestamp |-> 5, metrics |-> M1],
      [file |-> "f", timestamp |-> 5, metrics |-> M1],
      [repo |-> "", file |-> "f", timestamp |-> 5, metrics |-> M1],
      [repo |-> "A", file |-> "f", timestamp |-> 5],
      [repo |-> "A", file |-> "f", timestamp |-> 5, metrics |-> JsZero] }

TimelineQueries ==
    { Pick([repo |-> r, file |-> f], ks) :
        r \in {"", "A", "B"}, f \in {"", "f", "g"}, ks \in SUBSET {"repo", "file"} }

HotQueries == { [repo |-> "A"], [repo |-> "A", window |-> <<"1">>], [window |-> <<"1">>] }

Ma == [maintainabilityIndex |-> 90, complexityScore |-> 10, securityScore |-> 80]
Mb == [maintainabilityIndex |-> 70, complexityScore |-> 18]
Mc == [maintainabilityIndex |-> 50, complexityScore |-> 25, securityScore |-> 60]

\* record calls of HotSpec: every one is valid and names its timestamp
HotBodies ==
    { [repo |-> "A", file |-> "f", timestamp |-> 1, metrics |-> Ma],
      [repo |-> "A", file |-> "f", timestamp |-> 1, metrics |-> Mb],
      [repo |-> "A", file |-> "f", timestamp |-> 2, metrics |-> Mc],
      [repo |-> "A", file |-> "g", timestamp |-> 1, metrics |-> Ma],
      [repo |-> "A", timestamp |-> 1, metrics |-> Mc],
      [repo |-> "B", file |-> "f", timestamp |-> 1, metrics |-> Mb],
      [repo |-> "A", file |-> "constructor", timestamp |-> 1, metrics |-> Ma] }

Windows == { <<"1">>, <<"2">>, <<"0">>, <<"a">>, <<"-", "1">> }

HotSpecQueries ==
    { [repo |-> "A"], [repo |-> "B", window |-> <<"1">>], [window |-> <<"1">>] }
      \cup { [repo |-> "A", window |-> w] : w \in Windows }

\* record calls of EntriesSpec: files whose names are array indices among them
EntriesBodies ==
    { [repo |-> "A", file |-> "f", timestamp |-> 1, metrics |-> Ma],
      [repo |-> "A", file |-> "10", timestamp |-> 1, metrics |-> Ma],
      [repo |-> "A", file |-> "2", timestamp |-> 1, metrics |-> Ma],
      [repo |-> "A", file |-> "2", timestamp |-> 2, metrics |-> Mc] }

EntriesQueries == { [repo |-> "A"] } \cup { [repo |-> "A", window |-> w] : w \in Windows }

\* record calls of ConcSpec and CrashSpec
ConcBodies ==
    { [repo |-> "A", file |-> "f", timestamp |-> 5, metrics |-> M1],
      [repo |-> "A", file |-> "g", metrics |-> M2],
      [repo |-> "B", file |-> "f", timestamp |-> 5, metrics |-> M1],
      [file |-> "f", timestamp |-> 5, metrics |-> M1] }

ConcQueries == { [repo |-> "A"], [repo |-> "B", file |-> "f"] }

\* the source texts analyzed
Counts == 0..MaxCount \cup {ManyCount}

Codes ==
    [ totalLines : 1..MaxLines,
      functionCount : Counts,
      ifStatements : Counts,
      forLoops : Counts,
      whileLoops : Counts,
      switchStatements : 0..MaxCount,
      tryCatchBlocks : 0..MaxCount,
      sinks : SUBSET Range(Sinks) ]

\* the files of the repositories analyzed
CleanCode ==
    [totalLines |-> 2, functionCount |-> 1, ifStatements |-> 1, forLoops |-> 0,
     whileLoops |-> 0, switchStatements |-> 0, tryCatchBlocks |-> 0, sinks |-> {}]

RiskyCode ==
    [totalLines |-> 3, functionCount |-> 1, ifStatements |-> 20, forLoops |-> 1,
     whileLoops |-> 1, switchStatements |-> 0, tryCatchBlocks |-> 0,
     sinks |-> {"eval(", "innerHTML"}]

CleanFile == [path |-> <<"a", "ts">>, reachable |-> TRUE, data |-> CleanCode]

MissingFile == [path |-> <<"d", "ts">>, reachable |-> FALSE, data |-> CleanCode]

RepoFileKinds ==
    { CleanFile,
      MissingFile,
      [path |-> <<"b", "js">>, reachable |-> TRUE, data |-> RiskyCode],
      [path |-> <<"c", "min", "js">>, reachable |-> TRUE, data |-> NotText] }

\* every list of up to MaxFiles files, and the lists of ManyFiles files with
\* no file missing, the first or the last
RepoFiles ==
    UNION { [1..n -> RepoFileKinds] : n \in 1..MaxFiles }
        \cup { [i \in 1..ManyFiles |-> IF i = k THEN MissingFile ELSE CleanFile] :
                  k \in {0, 1, ManyFiles} }

-----------------------------------------------------------------------------
(* The server *)

Init ==
    /\ disk = NoFile
    /\ now = 1
    /\ pc = [r \in Reqs |-> "idle"]
    /\ inflight = [r \in Reqs |-> <<>>]
    /\ data = [r \in Reqs |-> <<>>]
    /\ last = Answer("none", <<>>, 0, <<>>, <<>>)
    /\ acked = <<>>
    /\ overlap = FALSE

Next ==
    \/ \E b \in Bodies : Record(b, MaxStore)
    \/ \E q \in TimelineQueries : Timeline(q)
    \/ \E q \in HotQueries : Hotspots(q)
    \/ Tick

Spec == Init /\ [][Next]_vars

\* the store filled by record calls and read by hotspots
HotNext ==
    \/ \E b \in HotBodies : Record(b, MaxHot)
    \/ \E q \in HotSpecQueries : Hotspots(q)

HotSpec == Init /\ [][HotNext]_vars

\* the same, over files of every kind of name
EntriesNext ==
    \/ \E b \in EntriesBodies : Record(b, MaxHot)
    \/ \E q \in EntriesQueries : Hotspots(q)

EntriesSpec == Init /\ [][EntriesNext]_vars

\* the analyzer called on every source text
AnalyzeInit ==
    /\ disk = NoFile
    /\ now = 1
    /\ pc = [r \in Reqs |-> IF r = 1 THEN "analyze" ELSE "idle"]
    /\ \E code \in Codes : inflight = [r \in Reqs |-> IF r = 1 THEN code ELSE <<>>]
    /\ data = [r \in Reqs |-> <<>>]
    /\ last = Answer("none", <<>>, 0, <<>>, <<>>)
    /\ acked = <<>>
    /\ overlap = FALSE

AnalyzeNext == \E r \in Reqs : Analyze(r)

AnalyzeSpec == AnalyzeInit /\ [][AnalyzeNext]_vars

\* one repository analysis from its list of code files on; the handlers of
\* several requests share no variable
RepoInit ==
    /\ disk = NoFile
    /\ now = 1
    /\ pc = [r \in Reqs |-> IF r = 1 THEN "files" ELSE "idle"]
    /\ \E codeFiles \in RepoFiles :
          /\ inflight = [r \in Reqs |-> IF r = 1 THEN codeFiles ELSE <<>>]
          /\ data = [r \in Reqs |->
                        IF r = 1
                        THEN [i |-> 1,
                              overallMetrics |-> newOverallMetrics(codeFiles),
                              fileAnalyses |-> <<>>,
                              skipped |-> {}]
                        ELSE <<>>]
    /\ last = Answer("none", <<>>, 0, <<>>, <<>>)
    /\ acked = <<>>
    /\ overlap = FALSE

RepoNext ==
    \/ \E r \in Reqs : RepoFetchFails(r)
    \/ \E r \in Reqs : RepoFetched(r)
    \/ \E r \in Reqs : RepoSummary(r)
    \/ \E r \in Reqs : RepoInsightsFail(r)

RepoSpec == RepoInit /\ [][RepoNext]_vars

\* record calls that arrive while others are in the server
ConcNext ==
    \/ \E r \in Reqs, b \in ConcBodies : RecordArrive(r, b)
    \/ \E r \in Reqs : RecordLoad(r, MaxConc)
    \/ \E r \in Reqs : RecordPush(r)
    \/ \E r \in Reqs : RecordOpen(r)
    \/ \E r \in Reqs : RecordWrite(r)
    \/ \E r \in Reqs : RecordRespond(r)
    \/ \E q \in ConcQueries : Timeline(q)

ConcSpec == Init /\ [][ConcNext]_vars

\* the same, with writes of the file that fail
FaultNext ==
    \/ ConcNext
    \/ \E r \in Reqs : RecordOpenFails(r)
    \/ \E r \in Reqs : RecordWriteFails(r)

FaultSpec == Init /\ [][FaultNext]_vars

\* the same, with the process killed and restarted at any statement
CrashNext ==
    \/ ConcNext
    \/ Crash
    \/ \E q \in HotQueries : Hotspots(q)

CrashSpec == Init /\ [][CrashNext]_vars

-----------------------------------------------------------------------------
(* Properties *)

\* the snapshots the file holds
stored == loadEvolutionData(disk).data

CountIn(seq, x) == Cardinality({ i \in 1..Len(seq) : seq[i] = x })

IsPrefix(a, b) == Len(a) <= Len(b) /\ SubSeq(b, 1, Len(a)) = a

AllAnswered == \A r \in Reqs : pc[r] = "idle"

\* every snapshot a record call answered with success is in the file, as often
\* as it was recorded
AckedAreStored ==
    /\ loadEvolutionData(disk).ok
    /\ \A i \in 1..Len(acked) : CountIn(acked, acked[i]) <= CountIn(stored, acked[i])

\* the snapshot is the one the body b describes, whatever its timestamp
SnapshotOf(snap, b) ==
    /\ Has(snap, "timestamp")
    /\ Pick(snap, SnapshotKeys \ {"timestamp"}) = Pick(b, SnapshotKeys \ {"timestamp"})

CrashKeepsDurable ==
    /\ Quiet => AckedAreStored
    /\ last.op \in {"timeline", "hotspots"} => last.status # 500

\* C3: the store is append-only: it is at all times the sequence of the
\* snapshots recorded with success, each as recorded, and the sequence stored
\* before a call is a prefix of the sequence stored after it.
AppendOnly ==
    /\ loadEvolutionData(disk).ok
    /\ stored = acked
    /\ last.op \in {"record", "timeline", "hotspots"} => IsPrefix(last.before, stored)

AppendOnlyWitness ==
    /\ Len(stored) >= 2
    /\ stored[1] # stored[2]
    /\ last.op = "hotspots"
    /\ last.status = 200
    /\ Len(last.out) >= 1

RecordOutcome(rejected) ==
    IF rejected
    THEN last.status = 400 /\ stored = last.before
    ELSE /\ last.status = 200
         /\ Len(stored) = Len(last.before) + 1
         /\ IsPrefix(last.before, stored)
         /\ SnapshotOf(stored[Len(stored)], last.arg)

\* C5, as stated: record fails with a validation error exactly when the
\* repository is empty or missing or the metrics value is absent, leaving the
\* store unchanged; every other input is appended with success.
RejectsOnlyAbsent ==
    last.op = "record" =>
        RecordOutcome(\/ ~Has(last.arg, "repo")
                      \/ last.arg.repo = ""
                      \/ ~Has(last.arg, "metrics"))

\* C5, amended: record fails with a validation error exactly when the
\* repository is empty or missing or the metrics value is absent or falsy
\* (such as 0), leaving the store unchanged; every other input (any metrics
\* mapping) is appended with success.
RejectsAbsentOrFalsy ==
    last.op = "record" =>
        RecordOutcome(\/ ~Has(last.arg, "repo")
                      \/ last.arg.repo = ""
                      \/ ~Has(last.arg, "metrics")
                      \/ last.arg.metrics = JsZero)

RejectsAbsentOrFalsyWitness ==
    /\ last.op = "record"
    /\ last.status = 400
    /\ Has(last.arg, "metrics")
    /\ last.arg.metrics = JsZero
    /\ ~FalsyStr(last.arg, "repo")
    /\ Len(stored) >= 1

\* C6: record stores the current time if and only if the caller omitted the
\* timestamp; every timestamp the caller supplied is stored as given.
TimestampAsGiven ==
    [][\A b \in Bodies :
         (Record(b, MaxStore) /\ last'.status = 200) =>
            stored'[Len(stored')].timestamp =
                IF Has(b, "timestamp") THEN b.timestamp ELSE now]_vars

\* the (repository, file, timestamp) of a snapshot
TupleOf(snap) == Pick(snap, {"repo", "file", "timestamp"})

CountTuple(seq, t) == Cardinality({ i \in 1..Len(seq) : TupleOf(seq[i]) = t })

\* C7: a record call with a valid body succeeds however many snapshots with
\* the same (repository, file, timestamp) are stored, and adds one more copy;
\* timeline for the repository returns as many copies as the store holds.
DuplicatesKept ==
    /\ (last.op = "record" /\ ~FalsyStr(last.arg, "repo") /\ Has(last.arg, "metrics")
                           /\ last.arg.metrics # JsZero) =>
          /\ last.status = 200
          /\ Len(stored) >= 1
          /\ LET t == TupleOf(stored[Len(stored)])
             IN  CountTuple(stored, t) = CountTuple(last.before, t) + 1
    /\ (last.op = "timeline" /\ last.status = 200 /\ ~Has(last.arg, "file")) =>
          \A i \in 1..Len(stored) :
              stored[i].repo = last.arg.repo =>
                  CountTuple(last.out, TupleOf(stored[i]))
                      = CountTuple(stored, TupleOf(stored[i]))

DuplicatesKeptWitness ==
    /\ last.op = "timeline"
    /\ last.status = 200
    /\ Len(last.out) = MaxStore
    /\ CountTuple(last.out, TupleOf(last.out[1])) = MaxStore

\* the stored snapshots that a timeline query asks for, when `byFile` tells
\* whether the query filters by file
TimelineExact(byFileToo) ==
    \A snap \in Range(stored) \cup Range(last.out) :
        CountIn(last.out, snap) =
            IF /\ snap.repo = last.arg.repo
               /\ (byFileToo => (Has(snap, "file") /\ snap.file = last.arg.file))
            THEN CountIn(stored, snap)
            ELSE 0

\* C8, as stated: timeline returns exactly the stored snapshots of the
\* repository and, when a file is given, of that file; it fails with a
\* validation error when the repository is absent.
TimelineFiltersGiven ==
    last.op = "timeline" =>
        IF ~Has(last.arg, "repo") THEN last.status = 400
        ELSE last.status = 200 /\ TimelineExact(Has(last.arg, "file"))

\* C8, amended: timeline returns exactly the stored snapshots of the
\* repository and, when a non-empty file is given, of that file (an empty file
\* counts as none given); it fails with a validation error when the
\* repository is absent or empty.
TimelineFiltersNonEmpty ==
    last.op = "timeline" =>
        IF ~Has(last.arg, "repo") \/ last.arg.repo = "" THEN last.status = 400
        ELSE /\ last.status = 200
             /\ TimelineExact(Has(last.arg, "file") /\ last.arg.file # "")

TimelineFiltersNonEmptyWitness ==
    /\ last.op = "timeline"
    /\ last.status = 200
    /\ Has(last.arg, "file")
    /\ last.arg.file # ""
    /\ Len(last.out) >= 1
    /\ \E i \in 1..Len(stored) :
          stored[i].repo = last.arg.repo /\ CountIn(last.out, stored[i]) = 0
    /\ \E i \in 1..Len(stored) : stored[i].repo # last.arg.repo

\* the snapshots of file f in the repository of query q, in recorded order
GroupOf(f, q) ==
    SelectSeq(stored, LAMBDA snap : snap.repo = q.repo /\ Has(snap, "file") /\ snap.file = f)

\* the place of G[i] when G is put in ascending order of timestamp, equal
\* timestamps staying in recorded order
RankIn(G, i) ==
    1 + Cardinality({ j \in 1..Len(G) :
                        \/ G[j].timestamp < G[i].timestamp
                        \/ (G[j].timestamp = G[i].timestamp /\ j < i) })

AtRank(G, k) == G[CHOOSE i \in 1..Len(G) : RankIn(G, i) = k]

\* a securityScore, a missing one counted as 0
SecurityOf(m) == IF Has(m, "securityScore") THEN m.securityScore ELSE 0

\* the entry the trend rules give for group G and window N
TrendEntry(f, G, N) ==
    LET start == AtRank(G, Len(G) - N + 1).metrics
        end == AtRank(G, Len(G)).metrics
    IN  [kind |-> "entry",
         file |-> f,
         maintainabilityTrend |-> end.maintainabilityIndex - start.maintainabilityIndex,
         complexityTrend |-> end.complexityScore - start.complexityScore,
         securityTrend |-> SecurityOf(end) - SecurityOf(start),
         latest |-> end]

\* every entry returned is the trend of its file's snapshots in ascending
\* order of timestamp, from position (length - windowSize) to the last
EntriesAreTrends ==
    (last.op = "hotspots" /\ last.status = 200) =>
        \A i \in 1..Len(last.out) :
            LET G == GroupOf(last.out[i].file, last.arg)
                N == windowOf(last.arg)
            IN  /\ N >= 1
                /\ Len(G) >= N
                /\ last.out[i] = TrendEntry(last.out[i].file, G, N)

\* the store with the snapshots recorded i-th and (i+1)-th in the other order
Swapped(i) ==
    [j \in 1..Len(stored) |->
        IF j = i THEN stored[i + 1] ELSE IF j = i + 1 THEN stored[i] ELSE stored[j]]

EntriesFor(list, f) == { list[i] : i \in { j \in 1..Len(list) : list[j].file = f } }

DistinctTimestamps(G) ==
    \A i, j \in 1..Len(G) : i # j => G[i].timestamp # G[j].timestamp

\* recording two neighbouring snapshots in the other order leaves the entry of
\* every file unchanged, for all files or for those with distinct timestamps
SameInOtherOrder(distinctOnly) ==
    (last.op = "hotspots" /\ last.status = 200) =>
        \A i \in 1..(Len(stored) - 1) :
            LET other == hotspotsAnswer(Swapped(i), last.arg)
            IN  /\ other.status = 200
                /\ \A snap \in Range(stored) :
                      (/\ Has(snap, "file")
                       /\ (distinctOnly => DistinctTimestamps(GroupOf(snap.file, last.arg))))
                      => EntriesFor(other.out, snap.file) = EntriesFor(last.out, snap.file)

\* five snapshots of one file at increasing timestamps
ExampleScores == <<10, 12, 14, 18, 25>>

ExampleStore ==
    [i \in 1..5 |->
        [repo |-> "A", file |-> "f", timestamp |-> i,
         metrics |-> [maintainabilityIndex |-> 90 - i, complexityScore |-> ExampleScores[i]]]]

ExampleTrend ==
    LET a == hotspotsAnswer(ExampleStore, [repo |-> "A", window |-> <<"5">>])
    IN  a.status = 200 /\ Len(a.out) = 1 /\ a.out[1].complexityTrend = 15

\* C9, as stated: every entry is computed on the file's snapshots sorted
\* ascending by timestamp (start at position length - windowSize, end the
\* last, the trends end minus start, a missing securityScore counted as 0,
\* latest the end's metrics), independent of the order of recording.
TrendIgnoresRecordingOrder ==
    /\ EntriesAreTrends
    /\ SameInOtherOrder(FALSE)
    /\ ExampleTrend

\* C9, amended: every entry is computed on the file's snapshots sorted
\* ascending by timestamp, snapshots with equal timestamps staying in the
\* order of recording; it is independent of the order of recording for every
\* file whose snapshots have pairwise distinct timestamps.
TrendOfStableOrder ==
    /\ EntriesAreTrends
    /\ SameInOtherOrder(TRUE)
    /\ ExampleTrend

TrendOfStableOrderWitness ==
    /\ last.op = "hotspots"
    /\ last.status = 200
    /\ windowOf(last.arg) = 2
    /\ \E i \in 1..Len(last.out) :
          LET G == GroupOf(last.out[i].file, last.arg)
          IN  /\ Len(G) = 3
              /\ G[1].timestamp > G[2].timestamp
              /\ ~Has(AtRank(G, 2).metrics, "securityScore")
              /\ last.out[i].complexityTrend > 0

\* C10: hotspots holds exactly one entry for each file of the repository with
\* at least windowSize snapshots, and none for a file with fewer, for
\* snapshots without a file or for those of another repository.
OneEntryPerFile ==
    (last.op = "hotspots" /\ ~FalsyStr(last.arg, "repo") /\ windowOf(last.arg) >= 1) =>
        /\ last.status = 200
        /\ \A snap \in Range(stored) :
              Has(snap, "file") =>
                 Cardinality({ i \in 1..Len(last.out) : last.out[i].file = snap.file })
                    = IF Len(GroupOf(snap.file, last.arg)) >= windowOf(last.arg)
                      THEN 1 ELSE 0
        /\ \A i \in 1..Len(last.out) :
              \E snap \in Range(stored) : Has(snap, "file") /\ snap.file = last.out[i].file

FirstSeen(f, q) ==
    CHOOSE i \in 1..Len(stored) :
        /\ stored[i] \in Range(GroupOf(f, q))
        /\ \A j \in 1..(i - 1) : stored[j] \notin Range(GroupOf(f, q))

TiesInFirstEncounterOrder ==
    (last.op = "hotspots" /\ last.status = 200) =>
        \A i, j \in 1..Len(last.out) :
            (i < j /\ last.out[i].complexityTrend = last.out[j].complexityTrend)
                => FirstSeen(last.out[i].file, last.arg) < FirstSeen(last.out[j].file, last.arg)

\* C13: timeline and hotspots are read-only: after the call, with valid or
\* invalid input, the store holds the snapshots it held before, in the same
\* order.
ReadsLeaveStore ==
    (last.op \in {"timeline", "hotspots"}) => stored = last.before

ReadsLeaveStoreWitness ==
    /\ last.op = "hotspots"
    /\ last.status = 200
    /\ Len(last.out) = 1
    /\ Len(stored) = 3
    /\ \E i \in 1..Len(stored) : stored[i].repo # last.arg.repo

\* C14: when the write of a record call cannot complete, the call does not
\* report success, and the store later reads see is the store as it was
\* before the call, with no partial snapshot.
FailedWriteLeavesStore ==
    (Quiet /\ last.op = "record" /\ last.out = <<WriteError>>) =>
        /\ last.status # 200
        /\ loadEvolutionData(disk).ok
        /\ stored = last.before

\* C15: for every input the analyzer returns a maintainabilityIndex, a
\* performanceScore and a security score that are integers within [0, 100],
\* whatever the counts of lines, functions, constructs and sinks.
ScoresWithinRange ==
    (last.op = "analyze") =>
        \A score \in { last.out.metrics.maintainabilityIndex,
                        last.out.metrics.performanceScore,
                        last.out.security.score } :
            IsInteger(score) /\ Tenths(0) <= score /\ score <= Tenths(100)

\* the formulas leave [0, 100] for this text: the two scores are clamped to 0
ScoresWithinRangeWitness ==
    /\ last.op = "analyze"
    /\ last.arg.forLoops + last.arg.whileLoops > 20
    /\ last.out.metrics.complexityScore > 50
    /\ last.arg.sinks = Range(Sinks)
    /\ last.out.metrics.maintainabilityIndex = 0
    /\ last.out.metrics.performanceScore = 0

\* C16: the recommendations of a result are exactly, in this order, the
\* messages of the rules that hold on the values the same result reports
\* (complexityScore above 20, maintainabilityIndex below 50, performanceScore
\* below 70, at least one security issue), and the positive message alone if
\* and only if none holds.
RecommendationsOfReported ==
    (last.op = "analyze") =>
        LET fired == ruleMessages(last.out.metrics.complexityScore,
                                  last.out.metrics.maintainabilityIndex,
                                  last.out.metrics.performanceScore,
                                  Len(last.out.security.issues))
        IN  last.out.recommendations = IF fired = <<>> THEN <<GoodMessage>> ELSE fired

\* the sum of f over the set S
RECURSIVE SumOver(_, _)
SumOver(S, f) ==
    IF S = {} THEN 0 ELSE LET x == CHOOSE y \in S : TRUE IN f[x] + SumOver(S \ {x}, f)

\* a is the mean of f over S rounded to an integer (in tenths), 0 for no element
IsRoundedMean(a, S, f) ==
    IF S = {} THEN a = 0
    ELSE /\ IsInteger(a)
         /\ 2 * (a * Cardinality(S) - SumOver(S, f)) <= Tenths(Cardinality(S))
         /\ 2 * (SumOver(S, f) - a * Cardinality(S)) <= Tenths(Cardinality(S))

\* the statistics of an answered batch are those of the files that were not
\* skipped, and the batch fails only when the request for insights does; the
\* file count of the recommendations is that of all files (countAll) or of
\* the files not skipped
AggregatesOfAnalyzed(countAll) ==
    (last.op = "repository-analysis") =>
        LET batch == last.before
            ok == (1..Len(batch.files)) \ batch.skipped
            analysis == [i \in ok |-> analyzeCodeComplexity(batch.files[i].data)]
            overview == last.out.overview
        IN  /\ batch.insights => last.status = 200
            /\ batch.totals.totalLines = SumOver(ok, [i \in ok |-> analysis[i].metrics.totalLines])
            /\ batch.totals.totalFunctions
                  = SumOver(ok, [i \in ok |-> analysis[i].metrics.functionCount])
            /\ batch.totals.totalComplexity
                  = SumOver(ok, [i \in ok |-> analysis[i].metrics.complexityScore])
            /\ last.status = 200 =>
                  /\ overview.totalLines = batch.totals.totalLines
                  /\ overview.totalFunctions = batch.totals.totalFunctions
                  /\ IsRoundedMean(overview.averageMaintainability, ok,
                                   [i \in ok |-> analysis[i].metrics.maintainabilityIndex])
                  /\ IsRoundedMean(overview.averagePerformance, ok,
                                   [i \in ok |-> analysis[i].metrics.performanceScore])
                  /\ Range(overview.securityIssues)
                        = UNION { Range(analysis[i].security.issues) : i \in ok }
                  /\ Len(overview.securityIssues) = Cardinality(Range(overview.securityIssues))
                  /\ DOMAIN overview.fileTypes = { fileExtension(batch.files[i]) : i \in ok }
                  /\ \A e \in DOMAIN overview.fileTypes :
                        overview.fileTypes[e]
                          = Cardinality({ i \in ok : fileExtension(batch.files[i]) = e })
                  /\ Len(last.out.files) = Cardinality(ok)
                  /\ last.out.recommendations
                        = generateRepositoryRecommendations(
                              overview.averageMaintainability, overview.averagePerformance,
                              Len(overview.securityIssues),
                              IF countAll THEN Len(batch.files) ELSE Cardinality(ok))

\* C17: in repository aggregation a file whose fetch or analysis fails is
\* skipped and the batch goes on to a summary: the failed file adds to none of
\* the statistics (the sums of lines, functions and complexity, the averages
\* of maintainability and performance, the union of security issues, the
\* counts per extension, the file count the recommendations use), the
\* averages are 0 when no file succeeds, and the failure never fails the batch.
FailedFilesCountNowhere == AggregatesOfAnalyzed(FALSE)

\* what timeline and hotspots answer to query q over the file dk, and over
\* the array d that a readable file held
TimelineOver(dk, q) ==
    LET l == loadEvolutionData(dk)
    IN  IF l.ok THEN [status |-> 200, out |-> timeline(l.data, q)]
        ELSE [status |-> 500, out |-> <<>>]

HotspotsOver(dk, q) ==
    LET l == loadEvolutionData(dk)
    IN  IF l.ok THEN [status |-> hotspotsAnswer(l.data, q).status,
                      out |-> hotspotsAnswer(l.data, q).out]
        ELSE [status |-> 500, out |-> <<>>]

\* the queries for repository B, every file and every window of the model
QueriesFor(B) ==
    { Pick([repo |-> B, file |-> f, window |-> w], ks) :
        f \in {"f", "g"}, w \in Windows, ks \in { {"repo"}, {"repo", "file"}, {"repo", "window"} } }

\* the call answered last is a record call that began with a readable file
RecordOnReadable ==
    /\ Quiet
    /\ last.op = "record"
    /\ \/ last.status = 200
       \/ last.out = <<WriteError>>
       \/ last.status = 400 /\ loadEvolutionData(disk).ok

\* C18: a record call for repository A, successful or not, leaves what
\* timeline(B, f) and hotspots(B, w) return unchanged, for every other
\* repository B, every file f and every window w.
RepositoriesIsolated ==
    (RecordOnReadable /\ ~FalsyStr(last.arg, "repo")) =>
        \A B \in {"A", "B"} \ {last.arg.repo} : \A q \in QueriesFor(B) :
            /\ TimelineOver(disk, q) = [status |-> 200, out |-> timeline(last.before, q)]
            /\ HotspotsOver(disk, q) = [status |-> hotspotsAnswer(last.before, q).status,
                                        out |-> hotspotsAnswer(last.before, q).out]

\* the window of query q is absent, not a number, or zero
NoWindow(q) == ~Has(q, "window") \/ parseInt(q).nan \/ parseInt(q).value = 0

\* C19: hotspots never fails when a repository is given: for every window
\* (absent, non-numeric, zero, negative or positive; absent, non-numeric and
\* zero count as 5) and every store that successful record calls built it
\* returns a sequence of entries, and the start position it reads lies within
\* the file's group of snapshots.
HotspotsNeverFails ==
    (last.op = "hotspots" /\ ~FalsyStr(last.arg, "repo")) =>
        /\ last.status = 200
        /\ NoWindow(last.arg) =>
              last.out = hotspotsAnswer(stored, [repo |-> last.arg.repo, window |-> <<"5">>]).out
        /\ \A snap \in Range(stored) :
              (Has(snap, "file") /\ snap.repo = last.arg.repo) =>
                  LET G == GroupOf(snap.file, last.arg)
                      N == windowOf(last.arg)
                  IN  Len(G) >= N => (Len(G) - N) \in 0..(Len(G) - 1)

====
